---- MODULE Spec2Model ----
(***************************************************************************)
(* A model of the user-space allocator of src/umem.c: one mmap'ed region,  *)
(* a free list threaded through the region's own bytes, four placement     *)
(* algorithms, ufree with coalescing, and umemdump.                        *)
(*                                                                         *)
(* The region is modelled byte by byte (little-endian, 8-byte size_t and   *)
(* pointers), because the code reads and writes headers and links through  *)
(* raw addresses that may overlap.  A size_t or pointer value v is kept as *)
(* the integer congruent to v modulo 2^64 that lies in (-2^31, 2^31): a    *)
(* negative integer -k stands for the unsigned value 2^64 - k.  Sums and   *)
(* differences are then the machine's, and comparisons are unsigned        *)
(* (ULt).                                                                  *)
(***************************************************************************)
EXTENDS Integers, Sequences, FiniteSets, TLC

VARIABLES
  is_initialized,           \* static int is_initialized
  memory_region,            \* static void *memory_region
  free_list,                \* static void *free_list
  previous_allocated_size,  \* static size_t previous_allocated_size
  alloc_algo,               \* static int alloc_algo
  region_size,              \* static size_t region_size
  last_allocated,           \* static void *last_allocated (next fit)
  mem,                      \* the bytes of the region that are not zero
  status,                   \* "ok", or how the process ended
  live,                     \* pointers umalloc returned, not yet released
  ret,                      \* the last call: its argument, its return
                            \* value, and the rows it printed
  nalloc                    \* number of umalloc calls made so far

vars == <<is_initialized, memory_region, free_list, previous_allocated_size,
          alloc_algo, region_size, last_allocated, mem, status, live, ret,
          nalloc>>

---------------------------------------------------------------------------
\* Program constants.
PAGE_SIZE == 4096
UMEM_ERROR == -1
NULL == 0
SIZEOF_SIZE_T == 8
SIZEOF_PTR == 8
MAP_FAILED == -1

\* The strategies of umem.h, and a value that is none of them.
FIRST_FIT == "FIRST_FIT"
BEST_FIT == "BEST_FIT"
WORST_FIT == "WORST_FIT"
NEXT_FIT == "NEXT_FIT"
Algos == {FIRST_FIT, BEST_FIT, WORST_FIT, NEXT_FIT, "OTHER"}

\* The address mmap returns: page aligned, above every size the model uses.
RegionBase == 16 * PAGE_SIZE

\* Bounds of the model.
MaxAllocs == 3
RegionSizes == {0, 100, PAGE_SIZE}
Sizes == {0, 8, 24, 2032, 2048, 4064, 4080, 4088, 5000}
\* Requests above the region size: 5000, and 2^64 - 8 and 2^64 - 4 at the top
\* of the size_t range (written -8 and -4); 8 is an ordinary request.
OversizeSizes == {8, 5000, -8, -4}
\* The request sizes of the test programs' scenarios (src/main.c).
ScenarioSizes == {200, 250, 300, 400, 500, 1000}

---------------------------------------------------------------------------
\* Unsigned 64-bit comparison on the window representation.
ULt(a, b) == IF (a < 0) = (b < 0) THEN a < b ELSE b < 0
ULe(a, b) == ~ULt(b, a)

\* (x + k - 1) & ~(k - 1) for a power of two k, modulo 2^64.
AlignUp(x, k) == (x + k - 1) - ((x + k - 1) % k)

---------------------------------------------------------------------------
\* Memory: a function from addresses to non-zero bytes; every other byte of
\* the (zero-filled, anonymous) mapping is 0.
NoBytes == [x \in {} |-> 0]

Byte(v, i) == IF i < 4 THEN (v \div (256 ^ i)) % 256
              ELSE IF v < 0 THEN 255 ELSE 0

LoadByte(b, x) == IF x \in DOMAIN b THEN b[x] ELSE 0

Store(b, a, v) ==
  LET cell == a .. (a + SIZEOF_SIZE_T - 1)
      dom == DOMAIN b \cup cell
      f == [x \in dom |-> IF x \in cell THEN Byte(v, x - a) ELSE b[x]]
  IN [x \in {y \in dom : f[y] # 0} |-> f[x]]

\* The 8 bytes at a are the encoding of a value of the window.
Representable(b, a) ==
  LET hi == {LoadByte(b, a + i) : i \in 4..7}
      top == LoadByte(b, a + 3)
  IN \/ hi = {0} /\ top < 128
     \/ hi = {255} /\ top >= 128

Load(b, a) ==
  LET top == LoadByte(b, a + 3)
  IN LoadByte(b, a) + 256 * LoadByte(b, a + 1) + 65536 * LoadByte(b, a + 2)
     + 16777216 * (IF top >= 128 THEN top - 256 ELSE top)

\* An 8-byte access at a lies inside the mapped region.
Valid(a) == /\ a >= memory_region
            /\ a + SIZEOF_SIZE_T <= memory_region + region_size

\* A machine M = [b |-> bytes, st |-> ...] threads the memory and the first
\* fault through the statements of a function.  st is "ok", "oob" (an access
\* outside the region: undefined behaviour), "untracked" (a torn value the
\* window cannot hold) or "hang" (a loop that never ends).  Every statement
\* is an operator that takes the machine its predecessor left.
Machine(b) == [b |-> b, st |-> "ok"]

Fault(M, st) == [M EXCEPT !.st = st]

\* v = *(size_t *)a, as [M |-> machine after the read, v |-> value read]
ld(M, a) ==
  IF M.st # "ok" THEN [M |-> M, v |-> 0]
  ELSE IF ~Valid(a) THEN [M |-> Fault(M, "oob"), v |-> 0]
  ELSE IF ~Representable(M.b, a) THEN [M |-> Fault(M, "untracked"), v |-> 0]
  ELSE [M |-> M, v |-> Load(M.b, a)]

\* *(size_t *)a = v
wr(M, a, v) == IF M.st # "ok" THEN M
               ELSE IF ~Valid(a) THEN Fault(M, "oob")
               ELSE [M EXCEPT !.b = Store(M.b, a, v)]

\* *dst = r.v, for r as ld returns it
wrv(r, dst) == wr(r.M, dst, r.v)

\* *(void **)dst = *(void **)src
cp(M, src, dst) == wrv(ld(M, src), dst)

Hang(M) == IF M.st # "ok" THEN M ELSE Fault(M, "hang")

\* What a function leaves behind: the machine, the two static pointers it
\* may assign, and its return value.
Res(M, fl, la, r) == [M |-> M, fl |-> fl, la |-> la, ret |-> r]

---------------------------------------------------------------------------
\* first_fit_algorithm.

\* the split: the new block after the allocated space
ff_link(M, prev, new_block) ==
  \* prev_block is a void *: prev_block + 1 is one byte further
  IF prev # NULL THEN wr(M, prev + 1, new_block) ELSE M

ff_split(M, cur, prev, size, block_size) ==
  LET new_block == cur + SIZEOF_SIZE_T + size IN
  ff_link(wr(cp(wr(M, new_block, block_size - size - SIZEOF_SIZE_T),
                cur + SIZEOF_SIZE_T, new_block + SIZEOF_PTR),
             cur, size),
          prev, new_block)

\* the head, or the previous block, takes the link of the block found
ff_unlink(r, fl, la, cur, prev) ==
  IF prev = NULL
  THEN Res(r.M, IF r.M.st = "ok" THEN r.v ELSE fl, la, cur + SIZEOF_SIZE_T)
  ELSE Res(wr(r.M, prev + 1, r.v), fl, la, cur + SIZEOF_SIZE_T)

ff_take(M, fl, la, cur, prev) ==
  ff_unlink(ld(M, cur + SIZEOF_SIZE_T), fl, la, cur, prev)

RECURSIVE first_fit_scan(_, _, _, _, _, _, _)

ff_next(r, fl, la, cur, size, seen) ==
  first_fit_scan(r.M, fl, la, r.v, cur, size, seen \cup {cur})

\* A scan that takes the first block whatever its size.
ff_at_any(r, fl, la, cur, prev, size, seen) ==
  IF r.M.st # "ok" THEN Res(r.M, fl, la, NULL)
  ELSE ff_take(IF ULt(size + SIZEOF_SIZE_T, r.v)
               THEN ff_split(r.M, cur, prev, size, r.v) ELSE r.M,
               fl, la, cur, prev)

ff_at(r, fl, la, cur, prev, size, seen) ==
  IF r.M.st # "ok" THEN Res(r.M, fl, la, NULL)
  ELSE IF ULe(size, r.v)
  THEN ff_take(IF ULt(size + SIZEOF_SIZE_T, r.v)
               THEN ff_split(r.M, cur, prev, size, r.v) ELSE r.M,
               fl, la, cur, prev)
  ELSE ff_next(ld(r.M, cur + SIZEOF_SIZE_T), fl, la, cur, size, seen)

first_fit_scan(M, fl, la, cur, prev, size, seen) ==
  IF M.st # "ok" \/ cur = NULL THEN Res(M, fl, la, NULL)
  ELSE IF cur \in seen THEN Res(Hang(M), fl, la, NULL)
  ELSE ff_at(ld(M, cur), fl, la, cur, prev, size, seen)

first_fit_algorithm(M, fl, la, n) ==
  first_fit_scan(M, fl, la, fl, NULL, AlignUp(n, 8), {})

---------------------------------------------------------------------------
\* A void ** of best fit and worst fit: the address of the static free_list,
\* or the address of a link field inside the region.
AddrOfFreeList == <<"free_list", NULL>>
InMem(a) == <<"mem", a>>

\* *loc = v
wrloc(R, loc, v) ==
  IF loc[1] = "free_list"
  THEN IF R.M.st = "ok" THEN [R EXCEPT !.fl = v] ELSE R
  ELSE [R EXCEPT !.M = wr(R.M, loc[2], v)]

\* *loc = r.v, then return p
wrlocv(r, fl, la, p, loc) == wrloc(Res(r.M, fl, la, p), loc, r.v)

---------------------------------------------------------------------------
\* best_fit_algorithm.  The scan keeps best = [block, prev, diff]: the best
\* block so far, the location of the pointer to it, and smallest_diff.
RECURSIVE best_fit_scan(_, _, _, _, _, _)

bf_next(r, cur, size, best, seen) ==
  best_fit_scan(r.M, r.v, InMem(cur + SIZEOF_SIZE_T), size, best,
                seen \cup {cur})

\* A scan in which a later block of equal difference replaces the best one.
bf_at_last(r, cur, prev_pointer, size, best, seen) ==
  bf_next(ld(r.M, cur + SIZEOF_SIZE_T), cur, size,
          IF ULe(size, r.v) /\ ULe(r.v - size, best.diff)
          THEN [block |-> cur, prev |-> prev_pointer, diff |-> r.v - size]
          ELSE best,
          seen)

bf_at(r, cur, prev_pointer, size, best, seen) ==
  bf_next(ld(r.M, cur + SIZEOF_SIZE_T), cur, size,
          IF ULe(size, r.v) /\ ULt(r.v - size, best.diff)
          THEN [block |-> cur, prev |-> prev_pointer, diff |-> r.v - size]
          ELSE best,
          seen)

best_fit_scan(M, cur, prev_pointer, size, best, seen) ==
  IF M.st # "ok" \/ cur = NULL THEN [M |-> M, best |-> best]
  ELSE IF cur \in seen THEN [M |-> Hang(M), best |-> best]
  ELSE bf_at(ld(M, cur), cur, prev_pointer, size, best, seen)

\* r.v is the size of best_block
bf_place(r, fl, la, size, best_block, best_prev_pointer) ==
  LET remaining_size == r.v - size
      new_block == best_block + SIZEOF_SIZE_T + size
  IN IF ULt(SIZEOF_SIZE_T + SIZEOF_PTR, remaining_size)
     THEN wrloc(Res(wr(cp(wr(r.M, new_block, remaining_size - SIZEOF_SIZE_T),
                          best_block + SIZEOF_SIZE_T, new_block + SIZEOF_PTR),
                       best_block, size),
                    fl, la, best_block + SIZEOF_SIZE_T),
                best_prev_pointer, new_block)
     ELSE wrlocv(ld(r.M, best_block + SIZEOF_SIZE_T), fl, la,
                 best_block + SIZEOF_SIZE_T, best_prev_pointer)

bf_alloc(S, fl, la, size) ==
  IF S.M.st # "ok" \/ S.best.block = NULL THEN Res(S.M, fl, la, NULL)
  ELSE bf_place(ld(S.M, S.best.block), fl, la, size, S.best.block, S.best.prev)

best_fit_algorithm(M, fl, la, n) ==
  bf_alloc(best_fit_scan(M, fl, AddrOfFreeList, AlignUp(n, SIZEOF_SIZE_T),
                         [block |-> NULL, prev |-> AddrOfFreeList, diff |-> -1],
                         {}),
           fl, la, AlignUp(n, SIZEOF_SIZE_T))

---------------------------------------------------------------------------
\* worst_fit_algorithm.  The scan keeps worst = [block, prev, diff].
RECURSIVE worst_fit_scan(_, _, _, _, _, _)

wf_next(r, cur, size, worst, seen) ==
  worst_fit_scan(r.M, r.v, InMem(cur + SIZEOF_SIZE_T), size, worst,
                 seen \cup {cur})

\* A scan that keeps the first block that is large enough.
wf_at_first(r, cur, prev_pointer, size, worst, seen) ==
  wf_next(ld(r.M, cur + SIZEOF_SIZE_T), cur, size,
          IF ULe(size, r.v) /\ worst.block = NULL
          THEN [block |-> cur, prev |-> prev_pointer, diff |-> r.v - size]
          ELSE worst,
          seen)

wf_at(r, cur, prev_pointer, size, worst, seen) ==
  wf_next(ld(r.M, cur + SIZEOF_SIZE_T), cur, size,
          IF ULe(size, r.v) /\ ULt(worst.diff, r.v - size)
          THEN [block |-> cur, prev |-> prev_pointer, diff |-> r.v - size]
          ELSE worst,
          seen)

worst_fit_scan(M, cur, prev_pointer, size, worst, seen) ==
  IF M.st # "ok" \/ cur = NULL THEN [M |-> M, worst |-> worst]
  ELSE IF cur \in seen THEN [M |-> Hang(M), worst |-> worst]
  ELSE wf_at(ld(M, cur), cur, prev_pointer, size, worst, seen)

\* *worst_block = size, last
wf_resize(R, worst_block, size) == [R EXCEPT !.M = wr(R.M, worst_block, size)]

\* r.v is the size of worst_block
wf_place(r, fl, la, size, worst_block, worst_prev_pointer) ==
  LET remaining_size == r.v - size - SIZEOF_SIZE_T
      new_block == worst_block + SIZEOF_SIZE_T + size
  IN wf_resize(IF ULt(SIZEOF_SIZE_T, remaining_size)
               THEN wrloc(Res(cp(wr(r.M, new_block, remaining_size),
                                 worst_block + SIZEOF_SIZE_T,
                                 new_block + SIZEOF_PTR),
                              fl, la, worst_block + SIZEOF_SIZE_T),
                          worst_prev_pointer, new_block)
               ELSE wrlocv(ld(r.M, worst_block + SIZEOF_SIZE_T), fl, la,
                           worst_block + SIZEOF_SIZE_T, worst_prev_pointer),
               worst_block, size)

wf_alloc(S, fl, la, size) ==
  IF S.M.st # "ok" \/ S.worst.block = NULL THEN Res(S.M, fl, la, NULL)
  ELSE wf_place(ld(S.M, S.worst.block), fl, la, size, S.worst.block,
                S.worst.prev)

worst_fit_algorithm(M, fl, la, size) ==
  wf_alloc(worst_fit_scan(M, fl, AddrOfFreeList, size,
                          [block |-> NULL, prev |-> AddrOfFreeList, diff |-> 0],
                          {}),
           fl, la, size)

---------------------------------------------------------------------------
\* next_fit_algorithm: the do ... while; la is the static last_allocated.
RECURSIVE next_fit_scan(_, _, _, _, _, _)

\* r.v is the link of the block at la
nf_next(r, fl, la, start, size, seen) ==
  LET la2 == IF r.v = NULL THEN fl ELSE r.v IN
  IF r.M.st # "ok" THEN Res(r.M, fl, la, NULL)
  ELSE IF la2 = start THEN Res(r.M, fl, la2, NULL)
  ELSE IF la2 \in seen THEN Res(Hang(r.M), fl, la2, NULL)
  ELSE next_fit_scan(r.M, fl, la2, start, size, seen \cup {la2})

\* r.v is the size of the block at la
nf_at(r, fl, la, start, size, seen) ==
  LET remaining_size == r.v - size - SIZEOF_SIZE_T
      new_block == la + size + SIZEOF_SIZE_T
  IN IF r.M.st # "ok" THEN Res(r.M, fl, la, NULL)
     ELSE IF ULe(size, r.v)
     THEN IF ULt(SIZEOF_SIZE_T * 2, remaining_size)
          THEN Res(wr(cp(wr(r.M, new_block, remaining_size),
                         la + SIZEOF_SIZE_T, new_block + SIZEOF_SIZE_T),
                      la, size),
                   fl, new_block, new_block + SIZEOF_SIZE_T)
          ELSE Res(r.M, fl, la, la + SIZEOF_SIZE_T)
     ELSE nf_next(ld(r.M, la + SIZEOF_SIZE_T), fl, la, start, size, seen)

next_fit_scan(M, fl, la, start, size, seen) ==
  nf_at(ld(M, la), fl, la, start, size, seen)

nf_start(M, fl, la0, size) == next_fit_scan(M, fl, la0, la0, size, {la0})

next_fit_algorithm(M, fl, la, n) ==
  nf_start(M, fl,
           IF \/ la = NULL
              \/ ULt(la, memory_region)
              \/ ULe(memory_region + region_size, la)
           THEN fl ELSE la,
           AlignUp(n, SIZEOF_SIZE_T))

---------------------------------------------------------------------------
\* umalloc: the switch on alloc_algo.
umalloc(M, fl, la, size) ==
  IF alloc_algo = FIRST_FIT THEN first_fit_algorithm(M, fl, la, size)
  ELSE IF alloc_algo = BEST_FIT THEN best_fit_algorithm(M, fl, la, size)
  ELSE IF alloc_algo = WORST_FIT THEN worst_fit_algorithm(M, fl, la, size)
  ELSE IF alloc_algo = NEXT_FIT THEN next_fit_algorithm(M, fl, la, size)
  ELSE Res(M, fl, la, NULL)

---------------------------------------------------------------------------
\* coalescing_memory: the loop; a pass that comes back to a (block, memory)
\* it has been in never ends.
RECURSIVE coalescing_loop(_, _, _)

\* r.v is the size of next_block
\* A merge after which the pass moves on to the block that follows.
co_merge_advance(r, cur, next_block, cur_size, seen) ==
  LET X == cp(wr(r.M, cur, cur_size + r.v + SIZEOF_SIZE_T),
              next_block + SIZEOF_SIZE_T, cur + SIZEOF_SIZE_T)
  IN  coalescing_loop(X, Load(X.b, cur + SIZEOF_SIZE_T), seen)

co_merge(r, cur, next_block, cur_size, seen) ==
  coalescing_loop(cp(wr(r.M, cur, cur_size + r.v + SIZEOF_SIZE_T),
                     next_block + SIZEOF_SIZE_T, cur + SIZEOF_SIZE_T),
                  cur, seen)

\* r.v is the size of cur
co_size(r, cur, next_block, seen) ==
  IF r.M.st # "ok" THEN r.M
  ELSE IF cur + r.v + SIZEOF_SIZE_T = next_block
  THEN co_merge(ld(r.M, next_block), cur, next_block, r.v, seen)
  ELSE coalescing_loop(r.M, next_block, seen)

\* r.v is the link of cur, b0 the memory at the loop test
co_next(r, cur, seen, b0) ==
  IF r.M.st # "ok" \/ r.v = NULL THEN r.M
  ELSE IF <<cur, b0>> \in seen THEN Hang(r.M)
  ELSE co_size(ld(r.M, cur), cur, r.v, seen \cup {<<cur, b0>>})

coalescing_loop(M, cur, seen) ==
  IF M.st # "ok" \/ cur = NULL THEN M
  ELSE co_next(ld(M, cur + SIZEOF_SIZE_T), cur, seen, M.b)

coalescing_memory(M, fl) == coalescing_loop(M, fl, {})

---------------------------------------------------------------------------
\* ufree: the search for the place of the block in the list.
RECURSIVE ufree_scan(_, _, _, _, _)

uf_next(r, cur, block_to_free, seen) ==
  ufree_scan(r.M, r.v, cur, block_to_free, seen \cup {cur})

ufree_scan(M, cur, prev, block_to_free, seen) ==
  IF M.st # "ok" \/ cur = NULL \/ ~ULt(cur, block_to_free)
  THEN [M |-> M, cur |-> cur, prev |-> prev]
  ELSE IF cur \in seen THEN [M |-> Hang(M), cur |-> cur, prev |-> prev]
  ELSE uf_next(ld(M, cur + SIZEOF_SIZE_T), cur, block_to_free, seen)

uf_done(M, fl, la) == Res(coalescing_memory(M, fl), fl, la, 0)

\* S = [M, cur, prev] is where the search stopped
uf_insert(S, fl, la, block_to_free) ==
  uf_done(wr(IF S.prev # NULL
             THEN wr(S.M, S.prev + SIZEOF_SIZE_T, block_to_free) ELSE S.M,
             block_to_free + SIZEOF_SIZE_T, S.cur),
          IF S.prev # NULL THEN fl ELSE block_to_free, la)

\* A ufree that runs the coalescing pass for a null pointer too.
ufree_null_coalesces(M, fl, la, ptr) ==
  IF ptr = NULL THEN Res(coalescing_memory(M, fl), fl, la, UMEM_ERROR)
  ELSE uf_insert(ufree_scan(ld(M, ptr - SIZEOF_SIZE_T).M, fl, NULL,
                            ptr - SIZEOF_SIZE_T, {}),
                 fl, la, ptr - SIZEOF_SIZE_T)

ufree(M, fl, la, ptr) ==
  IF ptr = NULL THEN Res(M, fl, la, UMEM_ERROR)
  ELSE uf_insert(ufree_scan(ld(M, ptr - SIZEOF_SIZE_T).M, fl, NULL,
                            ptr - SIZEOF_SIZE_T, {}),
                 fl, la, ptr - SIZEOF_SIZE_T)

---------------------------------------------------------------------------
\* umemdump: the rows printed, <<block_number, size, address>>.
RECURSIVE umemdump_loop(_, _, _, _)

dm_next(r, rows, seen) == umemdump_loop(r.M, r.v, rows, seen)

\* r.v is the size of cur
dm_row(r, cur, rows, seen) ==
  dm_next(ld(r.M, cur + SIZEOF_SIZE_T),
          IF r.M.st = "ok" THEN Append(rows, <<Len(rows) + 1, r.v, cur>>)
          ELSE rows,
          seen \cup {cur})

umemdump_loop(M, cur, rows, seen) ==
  IF M.st # "ok" \/ cur = NULL THEN [M |-> M, rows |-> rows]
  ELSE IF cur \in seen THEN [M |-> Hang(M), rows |-> rows]
  ELSE dm_row(ld(M, cur), cur, rows, seen)

umemdump(M, fl) == umemdump_loop(M, fl, <<>>, {})

---------------------------------------------------------------------------
\* The record of a call; out is what umemdump printed.
Call(op, arg, val) == [op |-> op, arg |-> arg, val |-> val, out |-> <<>>]

\* The state after the process starts: the statics are zero.
Init ==
  /\ is_initialized = 0
  /\ memory_region = NULL
  /\ free_list = NULL
  /\ previous_allocated_size = 0
  /\ alloc_algo = "NONE"
  /\ region_size = 0
  /\ last_allocated = NULL
  /\ mem = NoBytes
  /\ status = "ok"
  /\ live = <<>>
  /\ ret = Call("start", 0, 0)
  /\ nalloc = 0

\* How a call that left the machine in state st ends: an access outside the
\* region either traps or goes through to foreign memory, after which
\* nothing is known of the process.
Outcomes(st) == IF st = "oob" THEN {"segv", "wild"} ELSE {st}

\* What mmap may return.
MmapResults == {RegionBase, MAP_FAILED}

\* The initial free block and the settings, once mmap has succeeded.
UmeminitSetup(sizeOfRegion, rounded, allocationAlgo, mapped) ==
  /\ memory_region' = mapped
  /\ free_list' = mapped
  /\ mem' = Store(Store(NoBytes, mapped, rounded - SIZEOF_SIZE_T),
                  mapped + SIZEOF_SIZE_T, NULL)
  /\ alloc_algo' = allocationAlgo
  /\ previous_allocated_size' = rounded
  /\ region_size' = rounded
  /\ is_initialized' = 1
  /\ ret' = Call("umeminit", sizeOfRegion, 0)

\* The call to mmap and the test of what it returned.
UmeminitMap(sizeOfRegion, allocationAlgo, mapped) ==
  IF mapped = MAP_FAILED
  THEN /\ memory_region' = MAP_FAILED
       /\ ret' = Call("umeminit", sizeOfRegion, UMEM_ERROR)
       /\ UNCHANGED <<is_initialized, free_list, previous_allocated_size,
                      alloc_algo, region_size, mem>>
  ELSE UmeminitSetup(sizeOfRegion, AlignUp(sizeOfRegion, PAGE_SIZE),
                     allocationAlgo, mapped)

\* A umeminit without the test of is_initialized.
UmeminitAgain(sizeOfRegion) ==
  /\ status = "ok"
  /\ IF ULe(sizeOfRegion, 0)
     THEN /\ ret' = Call("umeminit", sizeOfRegion, UMEM_ERROR)
          /\ UNCHANGED <<is_initialized, memory_region, free_list,
                         previous_allocated_size, alloc_algo, region_size,
                         mem>>
     ELSE \E allocationAlgo \in Algos, mapped \in MmapResults :
            UmeminitMap(sizeOfRegion, allocationAlgo, mapped)
  /\ UNCHANGED <<last_allocated, status, live, nalloc>>

\* umeminit(sizeOfRegion, allocationAlgo).  The two early returns read
\* neither the strategy nor the mapping, which are chosen past them.
Umeminit(sizeOfRegion) ==
  /\ status = "ok"
  /\ IF is_initialized # 0 \/ ULe(sizeOfRegion, 0)
     THEN /\ ret' = Call("umeminit", sizeOfRegion, UMEM_ERROR)
          /\ UNCHANGED <<is_initialized, memory_region, free_list,
                         previous_allocated_size, alloc_algo, region_size,
                         mem>>
     ELSE \E allocationAlgo \in Algos, mapped \in MmapResults :
            UmeminitMap(sizeOfRegion, allocationAlgo, mapped)
  /\ UNCHANGED <<last_allocated, status, live, nalloc>>

\* A call that did not return: the process is gone (or stuck), and the
\* statics and the memory are left as they were before the call.
Ended(op, arg, st) ==
  /\ status' \in Outcomes(st)
  /\ ret' = Call(op, arg, 0)
  /\ UNCHANGED <<free_list, last_allocated, mem, live>>

\* umalloc(size), called after umeminit has succeeded; R is what it did.
UmallocReturns(size, R) ==
  IF R.M.st = "ok"
  THEN /\ mem' = R.M.b
       /\ free_list' = R.fl
       /\ last_allocated' = R.la
       /\ live' = IF R.ret # NULL
                  THEN Append(live, [ptr |-> R.ret, size |-> size])
                  ELSE live
       /\ ret' = Call("umalloc", size, R.ret)
       /\ UNCHANGED status
  ELSE Ended("umalloc", size, R.M.st)

Umalloc(size) ==
  /\ status = "ok"
  /\ is_initialized = 1
  /\ nalloc < MaxAllocs
  /\ nalloc' = nalloc + 1
  /\ UmallocReturns(size,
                    umalloc(Machine(mem), free_list, last_allocated, size))
  /\ UNCHANGED <<is_initialized, memory_region, previous_allocated_size,
                 alloc_algo, region_size>>

RemoveAt(s, i) == [j \in 1..(Len(s) - 1) |-> IF j < i THEN s[j] ELSE s[j + 1]]

\* ufree(ptr) of the i-th live pointer; R is what it did.
UfreeReturns(i, ptr, R) ==
  IF R.M.st = "ok"
  THEN /\ mem' = R.M.b
       /\ free_list' = R.fl
       /\ last_allocated' = R.la
       /\ live' = RemoveAt(live, i)
       /\ ret' = Call("ufree", ptr, R.ret)
       /\ UNCHANGED status
  ELSE Ended("ufree", ptr, R.M.st)

Ufree(i) ==
  /\ status = "ok"
  /\ is_initialized = 1
  /\ UfreeReturns(i, live[i].ptr,
                  ufree(Machine(mem), free_list, last_allocated, live[i].ptr))
  /\ UNCHANGED <<is_initialized, memory_region, previous_allocated_size,
                 alloc_algo, region_size, nalloc>>

\* ufree(NULL).
UfreeNullReturns(R) ==
  /\ mem' = R.M.b
  /\ free_list' = R.fl
  /\ last_allocated' = R.la
  /\ ret' = Call("ufree", NULL, R.ret)

UfreeNull ==
  /\ status = "ok"
  /\ is_initialized = 1
  /\ UfreeNullReturns(ufree(Machine(mem), free_list, last_allocated, NULL))
  /\ UNCHANGED <<is_initialized, memory_region, previous_allocated_size,
                 alloc_algo, region_size, status, live, nalloc>>

\* umemdump(); D is what it printed.
UmemdumpReturns(D) ==
  IF D.M.st = "ok"
  THEN /\ ret' = [Call("umemdump", 0, 0) EXCEPT !.out = D.rows]
       /\ UNCHANGED <<status, free_list, last_allocated, mem, live>>
  ELSE Ended("umemdump", 0, D.M.st)

Umemdump ==
  /\ status = "ok"
  /\ is_initialized = 1
  /\ UmemdumpReturns(umemdump(Machine(mem), free_list))
  /\ UNCHANGED <<is_initialized, memory_region, previous_allocated_size,
                 alloc_algo, region_size, nalloc>>

Next ==
  \/ \E s \in RegionSizes : Umeminit(s)
  \/ \E n \in Sizes : Umalloc(n)
  \/ \E i \in 1..Len(live) : Ufree(i)
  \/ UfreeNull
  \/ Umemdump

Spec == Init /\ [][Next]_vars

\* The runs in which every request is for at least one byte.
NextPositive ==
  \/ \E s \in RegionSizes : Umeminit(s)
  \/ \E n \in Sizes \ {0} : Umalloc(n)
  \/ \E i \in 1..Len(live) : Ufree(i)
  \/ UfreeNull
  \/ Umemdump

SpecPositive == Init /\ [][NextPositive]_vars

\* The runs of the test programs: one page, the tests' request sizes.
NextScenario ==
  \/ Umeminit(PAGE_SIZE)
  \/ \E n \in ScenarioSizes : Umalloc(n)
  \/ \E i \in 1..Len(live) : Ufree(i)
  \/ UfreeNull
  \/ Umemdump

SpecScenario == Init /\ [][NextScenario]_vars

\* The runs with requests larger than the region.
NextOversize ==
  \/ Umeminit(PAGE_SIZE)
  \/ \E n \in OversizeSizes : Umalloc(n)
  \/ \E i \in 1..Len(live) : Ufree(i)
  \/ UfreeNull
  \/ Umemdump

SpecOversize == Init /\ [][NextOversize]_vars

---------------------------------------------------------------------------
\* What the properties below are about, read off a state.

\* The free list as umemdump would walk it: the block addresses in list
\* order, and how the walk ends: "nil" at a null link, "cycle" at a block
\* already met, "bad" at a link that is no readable block of the region.
RECURSIVE ListWalk(_, _, _)
ListWalk(b, p, acc) ==
  IF p = NULL THEN [seq |-> acc, end |-> "nil"]
  ELSE IF \E k \in 1..Len(acc) : acc[k] = p THEN [seq |-> acc, end |-> "cycle"]
  ELSE IF ~(/\ Valid(p) /\ Valid(p + SIZEOF_SIZE_T)
            /\ Representable(b, p) /\ Representable(b, p + SIZEOF_SIZE_T))
  THEN [seq |-> acc, end |-> "bad"]
  ELSE ListWalk(b, Load(b, p + SIZEOF_SIZE_T), Append(acc, p))

FreeWalk == ListWalk(mem, free_list, <<>>)
FreeBlocks == {FreeWalk.seq[k] : k \in 1..Len(FreeWalk.seq)}
SizeOf(a) == Load(mem, a)

\* The blocks met walking the headers from the region base, each next
\* header at (header address + header size + recorded size), and how the
\* walk ends: "exact" at the region end, "bad" anywhere else.
RECURSIVE HeaderWalk(_, _)
HeaderWalk(a, acc) ==
  IF a = memory_region + region_size THEN [seq |-> acc, end |-> "exact"]
  ELSE IF ~Valid(a) \/ ~Representable(mem, a) \/ SizeOf(a) < 0
  THEN [seq |-> acc, end |-> "bad"]
  ELSE HeaderWalk(a + SIZEOF_SIZE_T + SizeOf(a), Append(acc, a))

RegionWalk == HeaderWalk(memory_region, <<>>)
RegionBlocks == {RegionWalk.seq[k] : k \in 1..Len(RegionWalk.seq)}

\* The headers of the blocks handed out and not yet released.
LiveBlocks == {live[k].ptr - SIZEOF_SIZE_T : k \in 1..Len(live)}

\* Between two calls, after umeminit has succeeded and no call has faulted.
Quiescent == status = "ok" /\ is_initialized = 1

---------------------------------------------------------------------------
\* C1: after any sequence of umalloc/ufree calls the blocks tile the region:
\* the walk over the headers from the region base ends exactly at the region
\* end, and the blocks it visits are the free blocks and the allocated
\* blocks, every one of them and nothing else (no gap, no overlap).
C1_PartitionInvariant ==
  Quiescent =>
    /\ RegionWalk.end = "exact"
    /\ RegionBlocks = FreeBlocks \cup LiveBlocks

\* C2: the free list holds exactly the blocks that are not allocated: it is
\* acyclic and ends at a null link, every block of the region that is not
\* handed out is reachable from the head, and no live block is.
C2_RegistryConsistency ==
  Quiescent =>
    /\ FreeWalk.end = "nil"
    /\ RegionBlocks \ LiveBlocks \subseteq FreeBlocks
    /\ FreeBlocks \cap LiveBlocks = {}

\* The bytes [p, p + n).
Range(p, n) == p .. (p + n - 1)

\* C3: any two live pointers are distinct and designate disjoint ranges
\* [p, p + requested size), and no such range contains a byte of the header
\* of another block, free or allocated.
C3_LiveRangesDisjoint ==
  Quiescent =>
    \A i \in 1..Len(live) :
      /\ \A j \in 1..Len(live) :
           i # j => /\ live[i].ptr # live[j].ptr
                    /\ Range(live[i].ptr, live[i].size)
                         \cap Range(live[j].ptr, live[j].size) = {}
      /\ \A h \in (FreeBlocks \cup LiveBlocks) \ {live[i].ptr - SIZEOF_SIZE_T} :
           Range(live[i].ptr, live[i].size) \cap Range(h, SIZEOF_SIZE_T) = {}

\* The last call was a ufree of a live pointer, and it returned.
AfterUfree == Quiescent /\ ret.op = "ufree" /\ ret.arg # NULL

\* C4: immediately after a ufree of a live pointer no two entries of the
\* free list are physically adjacent.
C4_NoAdjacentFree ==
  AfterUfree =>
    \A a \in FreeBlocks :
      \A b \in FreeBlocks \ {a} : a + SIZEOF_SIZE_T + SizeOf(a) # b

\* The next link of the free-list entry a.
Link(a) == Load(mem, a + SIZEOF_SIZE_T)

\* C5: after umeminit and after every umalloc and ufree the free list is in
\* strictly ascending address order: the next link of each entry is null or
\* designates a block at a strictly higher address.
C5_AscendingOrder ==
  Quiescent =>
    \A a \in FreeBlocks :
      Link(a) = NULL \/ (Link(a) \in FreeBlocks /\ ULt(a, Link(a)))

\* The last call was a umalloc, and it returned a pointer.
AfterUmalloc == Quiescent /\ ret.op = "umalloc" /\ ret.val # NULL

\* C6: on every successful umalloc(n) the returned block has a header size
\* of at least n, and its payload runs for at least n bytes before the
\* region end and before the header of any other block.
C6_GrantedAtLeastRequested ==
  AfterUmalloc =>
    /\ ULe(ret.arg, SizeOf(ret.val - SIZEOF_SIZE_T))
    /\ ret.val + ret.arg <= memory_region + region_size
    /\ \A h \in (FreeBlocks \cup LiveBlocks) \ {ret.val - SIZEOF_SIZE_T} :
         h \notin Range(ret.val, ret.arg)

\* C7: umalloc(n) returns NULL only when no free-list block has a size of at
\* least n rounded up to the word width: a umalloc call that is made while
\* such a block exists, one of exactly that size included, and that returns,
\* returns a non-null pointer.
C7_NullOnlyWhenNoFit ==
  [][(/\ nalloc' = nalloc + 1
      /\ status' = "ok"
      /\ \E a \in FreeBlocks :
           ULe(AlignUp(ret'.arg, SIZEOF_SIZE_T), SizeOf(a)))
       => ret'.val # NULL]_vars

\* C8: every umalloc, ufree and umemdump call terminates: no call is ever
\* caught in a loop that passes again through a state it has been in.
C8_EveryCallTerminates == status # "hang"

\* The sum of the sizes requested for the pointers of s.
RECURSIVE SumSizes(_)
SumSizes(s) == IF s = <<>> THEN 0 ELSE Head(s).size + SumSizes(Tail(s))

\* C9: in a run of umalloc calls with no ufree on a fresh region, whose
\* sizes sum to more than the rounded region size, the final call returns
\* NULL: it does not crash and it returns no pointer.  The runs are those
\* in which every umalloc call so far has left a live pointer (so nothing
\* was released) and the call at hand brings the sum above the region size.
C9_ExhaustionReturnsNull ==
  [][(/\ nalloc' = nalloc + 1
      /\ Len(live) = nalloc
      /\ SumSizes(live) + ret'.arg > region_size)
       => (status' = "ok" /\ ret'.val = NULL)]_vars

\* C10: once every pointer umalloc returned has been released, the free
\* list is exactly one block, at the region base, of the rounded region
\* size minus the header size.
C10_AllReleasedOneBlock ==
  (Quiescent /\ live = <<>>) =>
    /\ FreeWalk.end = "nil"
    /\ FreeWalk.seq = <<memory_region>>
    /\ SizeOf(memory_region) = region_size - SIZEOF_SIZE_T

\* After p = umalloc(n) has returned: what ufree(p), and then umalloc(n)
\* right after it, do.
RoundTripFree == ufree(Machine(mem), free_list, last_allocated, ret.val)
RoundTrip ==
  umalloc(RoundTripFree.M, RoundTripFree.fl, RoundTripFree.la, ret.arg)

\* C11: if p = umalloc(n) succeeds, then ufree(p) followed immediately by
\* umalloc(n) succeeds and returns the same address p.
C11_RoundTrip ==
  AfterUmalloc => (RoundTrip.M.st = "ok" /\ RoundTrip.ret = ret.val)

\* The umalloc call that has just returned was for n bytes.
Requested(n) == Quiescent /\ ret.op = "umalloc" /\ ret.arg = n

\* From a state in which p2 is live: what ufree(p2) and then umalloc(n) do.
FreeThenAlloc(p2, n) ==
  LET F == ufree(Machine(mem), free_list, last_allocated, p2)
  IN  umalloc(F.M, F.fl, F.la, n)

\* C12: first fit on a fresh page: umalloc(200), umalloc(300), umalloc(400)
\* return three distinct non-null blocks, and after the 300-byte block is
\* freed, umalloc(250) returns the address of the block just freed.
C12_FirstFitFragmentation ==
  alloc_algo = FIRST_FIT =>
    /\ (Requested(200) /\ nalloc = 1) => ret.val # NULL
    /\ (Requested(300) /\ nalloc = 2 /\ Len(live) >= 1 /\ live[1].size = 200)
         => (ret.val # NULL /\ ret.val # live[1].ptr)
    /\ (Requested(400) /\ nalloc = 3 /\ Len(live) >= 2
          /\ live[1].size = 200 /\ live[2].size = 300)
         => /\ ret.val # NULL
            /\ ret.val # live[1].ptr
            /\ ret.val # live[2].ptr
            /\ live[1].ptr # live[2].ptr
            /\ FreeThenAlloc(live[2].ptr, 250).M.st = "ok"
            /\ FreeThenAlloc(live[2].ptr, 250).ret = live[2].ptr

\* Worst fit on a fresh page, after umalloc(1000), umalloc(1000) and ufree of
\* the first block: the freed block and the tail of the region are free.
FirstOfTwoFreed ==
  /\ alloc_algo = WORST_FIT
  /\ Quiescent
  /\ region_size = PAGE_SIZE
  /\ nalloc = 2
  /\ Len(live) = 1
  /\ live[1].size = 1000
  /\ ret.op = "ufree"
  /\ ret.arg = memory_region + SIZEOF_SIZE_T
  /\ SizeOf(memory_region) = 1000
  /\ ret.arg < live[1].ptr

\* This step is a umalloc call for n bytes.
UmallocStep(n) == nalloc' = nalloc + 1 /\ ret'.arg = n

\* The free list of the next state, with the sizes of its blocks.
FreeAfter == ListWalk(mem', free_list', <<>>)
SizeAfter(a) == Load(mem', a)

UmallocSucceeds ==
  Quiescent /\ nalloc' = nalloc + 1 /\ status' = "ok" /\ ret'.val # NULL

\* The header of the block this step returns.
Granted == ret'.val - SIZEOF_SIZE_T

\* The free blocks, before the step, that are large enough for n bytes.
Qualifying(n) == {a \in FreeBlocks : ULe(n, SizeOf(a))}

UmallocBy(algo) ==
  alloc_algo = algo /\ Quiescent /\ nalloc' = nalloc + 1 /\ status' = "ok"

\* The place of the free block a in the list, before the step.
PlaceOf(a) == CHOOSE k \in 1..Len(FreeWalk.seq) : FreeWalk.seq[k] = a

\* C15: under best fit umalloc(n) returns the payload of the free block that
\* minimizes size - aligned n among the blocks with size >= aligned n, and
\* among the blocks that tie for the minimum the one earliest in list
\* (address) order.
C15_BestFitMinimizes ==
  [][(UmallocBy(BEST_FIT)
        /\ Qualifying(AlignUp(ret'.arg, SIZEOF_SIZE_T)) # {}) =>
       /\ Granted \in Qualifying(AlignUp(ret'.arg, SIZEOF_SIZE_T))
       /\ \A a \in Qualifying(AlignUp(ret'.arg, SIZEOF_SIZE_T)) :
            /\ ULe(SizeOf(Granted), SizeOf(a))
            /\ SizeOf(a) = SizeOf(Granted) =>
                 (PlaceOf(Granted) <= PlaceOf(a) /\ Granted <= a)]_vars

\* Best fit has served umalloc(8) from the first of two free blocks of 2032
\* bytes each: the first is split, the second is still whole.
C15_Reached ==
  /\ alloc_algo = BEST_FIT
  /\ AfterUmalloc
  /\ ret.arg = 8
  /\ ret.val = memory_region + SIZEOF_SIZE_T
  /\ SizeOf(memory_region) = 8
  /\ FreeWalk.seq = <<memory_region + 16, memory_region + 2056>>
  /\ SizeOf(memory_region + 16) = 2016
  /\ SizeOf(memory_region + 2056) = 2032

\* C16: under worst fit umalloc(n) returns the payload of the free block that
\* maximizes size - n among all blocks with size >= n, a block of size
\* exactly n included, and among the blocks that tie for the maximum the
\* first one in list order.
C16_WorstFitMaximizes ==
  [][(UmallocBy(WORST_FIT) /\ Qualifying(ret'.arg) # {}) =>
       /\ Granted \in Qualifying(ret'.arg)
       /\ \A a \in Qualifying(ret'.arg) :
            /\ ULe(SizeOf(a), SizeOf(Granted))
            /\ SizeOf(a) = SizeOf(Granted) =>
                 PlaceOf(Granted) <= PlaceOf(a)]_vars

\* Where a next-fit scan starts: the cursor, or the head of the list when the
\* cursor is null or outside the region.
ScanStart ==
  IF \/ last_allocated = NULL
     \/ ULt(last_allocated, memory_region)
     \/ ULe(memory_region + region_size, last_allocated)
  THEN free_list ELSE last_allocated

\* The free list read circularly from the block a.
ScanFrom(a) ==
  SubSeq(FreeWalk.seq, PlaceOf(a), Len(FreeWalk.seq))
    \o SubSeq(FreeWalk.seq, 1, PlaceOf(a) - 1)

\* The first block large enough for n bytes on the scan from the block a.
FirstOnScan(a, n) ==
  LET S == ScanFrom(a)
      k == CHOOSE i \in 1..Len(S) :
             /\ ULe(n, SizeOf(S[i]))
             /\ \A j \in 1..(i - 1) : ~ULe(n, SizeOf(S[j]))
  IN  S[k]

\* The block after a in the free list, circularly.
Following(a) == ScanFrom(a)[IF Len(FreeWalk.seq) > 1 THEN 2 ELSE 1]

\* C17: under next fit a successful umalloc(n) returns the payload of the
\* first free-list block with size >= aligned n met on the circular scan
\* from the cursor, the selected block itself and not its split remainder;
\* afterwards the cursor designates the newly created free remainder when a
\* split occurred, and otherwise the free block that follows the selected
\* one in the list.
C17_NextFitSelection ==
  [][(UmallocBy(NEXT_FIT) /\ ret'.val # NULL /\ ScanStart \in FreeBlocks) =>
       /\ Granted = FirstOnScan(ScanStart, AlignUp(ret'.arg, SIZEOF_SIZE_T))
       /\ IF SizeAfter(Granted) # SizeOf(Granted)
          THEN /\ last_allocated' = Granted + SIZEOF_SIZE_T + SizeAfter(Granted)
               /\ \E k \in 1..Len(FreeAfter.seq) :
                    FreeAfter.seq[k] = last_allocated'
          ELSE FreeBlocks # {Granted} =>
                 last_allocated' = Following(Granted)]_vars

\* C18: under next fit, at the moment a scan begins the cursor designates a
\* member of the current free list: a cursor whose referent has been
\* allocated or coalesced away has been reset to the head of the list.
C18_CursorOnFreeList ==
  [][(alloc_algo = NEXT_FIT /\ Quiescent /\ nalloc' = nalloc + 1
        /\ FreeBlocks # {}) =>
       ScanStart \in FreeBlocks]_vars

\* C19: under next fit with no ufree in between, successive successful
\* umalloc calls do not return an address already returned in the same
\* sweep: the returned addresses strictly increase until the scan wraps to
\* the head of the list, and the same address is never returned twice in a
\* row.
C19_NoAddressTwice ==
  [][(UmallocBy(NEXT_FIT) /\ ret'.val # NULL
        /\ ret.op = "umalloc" /\ ret.val # NULL) =>
       /\ ret'.val # ret.val
       /\ ret'.val < ret.val => Granted = free_list]_vars

\* C20: once a umeminit call has succeeded, every later umeminit call, of any
\* size and strategy, returns the error value and leaves the region base,
\* the region size, the free list, the block headers, the recorded strategy
\* and the next-fit cursor unchanged.
C20_SecondInitRejected ==
  [][(is_initialized = 1 /\ ret'.op = "umeminit") =>
       /\ ret'.val = UMEM_ERROR
       /\ UNCHANGED <<memory_region, region_size, free_list, mem, alloc_algo,
                      last_allocated, is_initialized>>]_vars

\* A umeminit call has been rejected while a granted block is live.
C20_Reached ==
  /\ is_initialized = 1
  /\ ret.op = "umeminit"
  /\ ret.arg = PAGE_SIZE
  /\ ret.val = UMEM_ERROR
  /\ Len(live) > 0

\* C21: ufree(NULL) returns the error value and is a no-op: the free list,
\* every block header and the next-fit cursor are unchanged, and the
\* coalescing pass is not run.
C21_FreeNullNoOp ==
  [][(ret'.op = "ufree" /\ ret'.arg = NULL) =>
       /\ ret'.val = UMEM_ERROR
       /\ UNCHANGED <<free_list, mem, last_allocated, status, live>>]_vars

\* ufree(NULL) has returned in a state whose free list holds two physically
\* adjacent blocks, which a coalescing pass would have merged.
C21_Reached ==
  /\ Quiescent
  /\ ret.op = "ufree"
  /\ ret.arg = NULL
  /\ ret.val = UMEM_ERROR
  /\ \E a \in FreeBlocks :
       /\ Link(a) = a + SIZEOF_SIZE_T + SizeOf(a)
       /\ Link(a) \in FreeBlocks

\* C22: umemdump changes no allocator state (head of the free list, links,
\* block sizes, cursor), terminates in every reachable state, an empty free
\* list included, and reports the entries (ordinal, size, address) of the
\* free list from its head, numbered from 1; two calls with no umalloc or
\* ufree in between report the same entries.
C22_DumpFrame ==
  [][(Quiescent /\ ret'.op = "umemdump") =>
       /\ status' = "ok"
       /\ UNCHANGED <<free_list, mem, last_allocated, live>>
       /\ Len(ret'.out) = Len(FreeWalk.seq)
       /\ \A k \in 1..Len(ret'.out) :
            ret'.out[k] = <<k, SizeOf(FreeWalk.seq[k]), FreeWalk.seq[k]>>
       /\ ret.op = "umemdump" => ret'.out = ret.out]_vars

\* A multiple of the word width.
WordAligned(x) == x % SIZEOF_SIZE_T = 0

\* C23: under each strategy the requested size is rounded up to a multiple of
\* the word width before the search, so every size recorded in a block
\* header is a multiple of the word width, and every block header and every
\* returned payload address is word-aligned.
C23_WordAlignment ==
  Quiescent =>
    /\ \A k \in 1..Len(live) :
         /\ WordAligned(live[k].ptr)
         /\ WordAligned(SizeOf(live[k].ptr - SIZEOF_SIZE_T))
    /\ \A a \in FreeBlocks : WordAligned(a) /\ WordAligned(SizeOf(a))

\* The free list before the step with the block a replaced by b, or with a
\* taken out.
Replaced(a, b) ==
  [k \in 1..Len(FreeWalk.seq) |->
     IF FreeWalk.seq[k] = a THEN b ELSE FreeWalk.seq[k]]
Without(a) == SelectSeq(FreeWalk.seq, LAMBDA x : x # a)

\* The size a request of n bytes is served with.
Aligned(n) == AlignUp(n, SIZEOF_SIZE_T)

\* C24: in each strategy the chosen free block of size S is split for an
\* aligned request r exactly when S > r + header size + one pointer width;
\* then the returned block's header holds r, and the new free block directly
\* after it has size S - r - header size and takes the original block's
\* place in the free list; when S <= r + header size + pointer width there
\* is no split.
C24_SplitThreshold ==
  [][(alloc_algo \in {FIRST_FIT, BEST_FIT, WORST_FIT, NEXT_FIT}
        /\ UmallocSucceeds /\ Granted \in FreeBlocks) =>
       IF ULt(Aligned(ret'.arg) + SIZEOF_SIZE_T + SIZEOF_PTR, SizeOf(Granted))
       THEN /\ SizeAfter(Granted) = Aligned(ret'.arg)
            /\ SizeAfter(Granted + SIZEOF_SIZE_T + Aligned(ret'.arg))
                 = SizeOf(Granted) - Aligned(ret'.arg) - SIZEOF_SIZE_T
            /\ FreeAfter.seq
                 = Replaced(Granted,
                            Granted + SIZEOF_SIZE_T + Aligned(ret'.arg))
       ELSE FreeAfter.seq = Without(Granted)]_vars

\* This step is a ufree of a granted block, and it returns.
UfreeStep == Quiescent /\ ret'.op = "ufree" /\ ret'.arg # NULL /\ status' = "ok"

\* The header of the block this step releases.
Released == ret'.arg - SIZEOF_SIZE_T

\* The free list is in ascending address order before the step.
Ascending ==
  /\ FreeWalk.end = "nil"
  /\ \A k \in 1..(Len(FreeWalk.seq) - 1) : FreeWalk.seq[k] < FreeWalk.seq[k + 1]

\* The list the coalescing pass of this step starts from: the free list with
\* the released block at its place in address order.
BeforePass ==
  SelectSeq(FreeWalk.seq, LAMBDA x : x < Released)
    \o <<Released>>
    \o SelectSeq(FreeWalk.seq, LAMBDA x : x > Released)

\* The blocks of that list lie apart, each with a size within the region and
\* room for its link: no link slot reaches into the next block's header.
LinksInside ==
  \A k \in 1..Len(BeforePass) :
    /\ SIZEOF_PTR <= SizeOf(BeforePass[k])
    /\ SizeOf(BeforePass[k]) <= region_size
    /\ k < Len(BeforePass) =>
         BeforePass[k] + SIZEOF_SIZE_T + SizeOf(BeforePass[k])
           <= BeforePass[k + 1]

\* Every maximal run of physically adjacent blocks of the list s taken as one
\* block: acc holds the blocks [at, size] settled so far, the last one open.
RECURSIVE Runs(_, _)
Runs(s, acc) ==
  IF s = <<>> THEN acc
  ELSE IF /\ acc # <<>>
          /\ acc[Len(acc)].at + SIZEOF_SIZE_T + acc[Len(acc)].size = Head(s)
       THEN Runs(Tail(s),
                 [acc EXCEPT ![Len(acc)].size =
                    @ + SIZEOF_SIZE_T + SizeOf(Head(s))])
       ELSE Runs(Tail(s), Append(acc, [at |-> Head(s), size |-> SizeOf(Head(s))]))

\* C25: one coalescing pass over an address-ordered free list replaces every
\* maximal run of two or more physically adjacent free blocks, runs of three
\* or more included, by one block at the run's first address whose size is
\* the sum of the sizes plus one header size per block merged into it and
\* whose link is the last block's former link; the other blocks keep their
\* size and order, and the bytes covered by free blocks are the same.
C25_OnePassCoalesces ==
  [][(UfreeStep /\ Ascending /\ Released \notin FreeBlocks /\ LinksInside) =>
       /\ FreeAfter.end = "nil"
       /\ Len(FreeAfter.seq) = Len(Runs(BeforePass, <<>>))
       /\ \A k \in 1..Len(FreeAfter.seq) :
            /\ FreeAfter.seq[k] = Runs(BeforePass, <<>>)[k].at
            /\ SizeAfter(FreeAfter.seq[k]) = Runs(BeforePass, <<>>)[k].size]_vars

\* Best fit: a ufree has merged the released block with the free block before
\* it and with the free block after it, a run of three, in its one pass.
C25_Reached ==
  /\ alloc_algo = BEST_FIT
  /\ AfterUfree
  /\ \E a \in FreeBlocks :
       /\ a < ret.arg - SIZEOF_SIZE_T
       /\ a + SIZEOF_SIZE_T + SizeOf(a) > ret.arg + SizeOf(ret.arg - SIZEOF_SIZE_T)

\* A size that a subtraction below zero has produced: one of the values at
\* the top of the unsigned range.
Wrapped(x) == x < 0

\* C26: in worst fit and in next fit the remainder size (block size - request
\* - header size) never comes from an unsigned wraparound: a split is made
\* only when block size - request >= header size, so the remainder's header
\* is written neither beyond the chosen block's extent nor beyond the end of
\* the region.
C26_NoRemainderUnderflow ==
  [][(alloc_algo \in {WORST_FIT, NEXT_FIT} /\ Quiescent
        /\ nalloc' = nalloc + 1) =>
       /\ status' \notin Outcomes("oob")
       /\ status' = "ok" =>
            /\ ~Wrapped(Load(mem', last_allocated'))
            /\ \A k \in 1..Len(FreeAfter.seq) :
                 ~Wrapped(SizeAfter(FreeAfter.seq[k]))]_vars

\* C27: umalloc(n) with n greater than the rounded region size returns NULL
\* under every strategy, also for n within word width - 1 of the largest
\* size_t value, where the rounding (n + 7) & ~7 wraps to 0.
C27_OversizeReturnsNull ==
  [][(Quiescent /\ nalloc' = nalloc + 1 /\ ULt(region_size, ret'.arg)) =>
       (status' = "ok" /\ ret'.val = NULL)]_vars

\* C28: every block handed out by umalloc, umalloc(0) included, has a payload
\* of at least one pointer width, so that ufree writes the block's link
\* inside the released block's own payload and not over the header or the
\* payload of the block that follows.
C28_PayloadHoldsLink ==
  Quiescent =>
    \A k \in 1..Len(live) :
      ULe(SIZEOF_PTR, SizeOf(live[k].ptr - SIZEOF_SIZE_T))

====
